---- MODULE Spec2Model ----
(***************************************************************************)
(* Disbursement voucher endpoints of the central server                    *)
(* (routers/reports_routes/disbursement_voucher.py): create-or-update,     *)
(* get one, list for a month, over a relational store of voucher headers   *)
(* and three child tables.                                                 *)
(***************************************************************************)
EXTENDS Integers, Sequences, FiniteSets, TLC

VARIABLES
    vouchers,    \* committed DisbursementVoucher rows
    entries,     \* committed DisbursementVoucherEntry rows
    acctEntries, \* committed DisbursementVoucherAccountingEntry rows
    certs,       \* committed DisbursementVoucherCertifiedBy rows
    nextId,      \* next store-assigned row identity
    req,         \* the request being answered, if any
    resp,        \* its outcome: raised error or response, and the store calls made
    nReq,        \* number of upsert requests that reached the store
    sess,        \* one database session per in-flight upsert request
    committed    \* history: per path key, the body of the last committed upsert

vars == <<vouchers, entries, acctEntries, certs, nextId, req, resp, nReq, sess, committed>>

store == <<vouchers, entries, acctEntries, certs, nextId>>

----------------------------------------------------------------------------
(* Bounds of the model *)

MaxUpserts == 2

----------------------------------------------------------------------------
(* Values *)

None == "<None>"

Date(y, m, d) == [year |-> y, month |-> m, day |-> d]

Midnight == [hour |-> 0, minute |-> 0, second |-> 0]

IsLeap(y) == (y % 4 = 0 /\ y % 100 # 0) \/ y % 400 = 0

DaysInMonth(y, m) ==
    IF m = 2 THEN (IF IsLeap(y) THEN 29 ELSE 28)
    ELSE IF m \in {4, 6, 9, 11} THEN 30 ELSE 31

\* datetime.date(y, m, d) raises ValueError unless this holds
ValidDate(y, m, d) ==
    /\ y >= 1 /\ y <= 9999
    /\ m >= 1 /\ m <= 12
    /\ d >= 1 /\ d <= DaysInMonth(y, m)

\* datetime.datetime.combine(d, datetime.time())
Combine(d, t) == [date |-> d, time |-> t]

\* Path parameters the requests are drawn from: (school_id, year, month, date)
Paths == {<<1, 2024, 3, 1>>, <<1, 2024, 3, 30>>, <<2, 2024, 2, 1>>, <<1, 2024, 2, 30>>}
SchoolIds == {1, 2}
ListMonths == {<<2024, 2>>, <<2024, 3>>}

\* Callers and the permissions their role grants
Callers == {"clerk", "auditor", "guest"}

Permissions(caller) ==
    CASE caller = "clerk" -> {"reports:local:read", "reports:local:write"}
      [] caller = "auditor" -> {"reports:local:read"}
      [] OTHER -> {}

\* authorize(session, user, scope): fails unless the user holds the scope
verify_user_permission(caller, scope) == scope \in Permissions(caller)

DefaultReportStatus == "draft"

ReportStatuses == {"draft", "approved"}

----------------------------------------------------------------------------
(* Request bodies: a JSON object is a record holding the keys it supplies *)

EntryPaper == [receipt |-> "R1", particulars |-> "Paper", unit |-> "box",
               quantity |-> 2, unitPrice |-> 50]
EntryInk == [receipt |-> None, particulars |-> "Ink", unit |-> "pc",
             quantity |-> 1, unitPrice |-> 7]
AcctCash == [uacs_code |-> "101", accountTitle |-> "Cash", debit |-> 0, credit |-> 107]
AcctSupplies == [uacs_code |-> "502", accountTitle |-> "Supplies", debit |-> 107, credit |-> 0]

PayloadFull ==
    [schoolId |-> 1, date |-> Date(2024, 3, 1),
     modeOfPayment |-> "check", payee |-> "Jane Doe",
     tinOrEmployeeNo |-> "T-1", responsibilityCenter |-> "RC-1",
     orsbursNo |-> "ORS-1", address |-> "Main St",
     linkedLiquidationCategory |-> "A",
     certifiedCashAvailable |-> TRUE,
     certifiedSupportingDocsComplete |-> TRUE,
     certifiedSubjectToDebitAccount |-> TRUE,
     approvedBy |-> "principal",
     checkNo |-> "C-1", bankNameAndAccountNo |-> "LBP 1", adaNo |-> "ADA-1", jevNo |-> "JEV-1",
     entries |-> <<EntryPaper, EntryPaper, EntryInk>>,
     accountingEntries |-> <<AcctCash>>,
     certifiedBy |-> <<"u1", "u2", "u1">>]

PayloadMinimal ==
    [schoolId |-> 1, date |-> Date(2024, 2, 1),
     modeOfPayment |-> "cash", payee |-> "John Roe"]

PayloadOther ==
    [schoolId |-> 2, date |-> Date(2024, 2, 1),
     modeOfPayment |-> "ada", payee |-> "Acme",
     linkedLiquidationCategory |-> "",
     certifiedSupportingDocsComplete |-> TRUE,
     jevNo |-> "JEV-2",
     reportStatus |-> "approved",
     entries |-> <<EntryInk>>,
     accountingEntries |-> <<AcctSupplies, AcctSupplies>>,
     certifiedBy |-> <<"u3">>]

Payloads == {PayloadFull, PayloadMinimal, PayloadOther}

LinkedCategories == {None, "", "A"}

OptionalText == {"tinOrEmployeeNo", "responsibilityCenter", "orsbursNo", "address",
                 "linkedLiquidationCategory", "approvedBy", "checkNo",
                 "bankNameAndAccountNo", "adaNo", "jevNo"}
CertFlags == {"certifiedCashAvailable", "certifiedSupportingDocsComplete",
              "certifiedSubjectToDebitAccount"}
ChildLists == {"entries", "accountingEntries", "certifiedBy"}
RequiredFields == {"schoolId", "date", "modeOfPayment", "payee"}
RequestFields == RequiredFields \cup OptionalText \cup CertFlags \cup ChildLists

\* Mutable header columns the upsert assigns from the request
HeaderFields == {"modeOfPayment", "payee"} \cup OptionalText \cup CertFlags

FieldDefault(f) ==
    IF f \in OptionalText THEN None
    ELSE IF f \in CertFlags THEN FALSE
    ELSE <<>>

\* DisbursementVoucherCreateRequest: declared fields only, defaults for absent ones
DisbursementVoucherCreateRequest(body) ==
    [f \in RequestFields |-> IF f \in DOMAIN body THEN body[f] ELSE FieldDefault(f)]

----------------------------------------------------------------------------
(* The store *)

Merge(r1, r2) ==
    [f \in DOMAIN r1 \cup DOMAIN r2 |-> IF f \in DOMAIN r2 THEN r2[f] ELSE r1[f]]

RECURSIVE SeqById(_)
\* Rows in store order (ascending row identity)
SeqById(S) ==
    IF S = {} THEN <<>>
    ELSE LET m == CHOOSE r \in S : \A q \in S : r.id <= q.id
         IN <<m>> \o SeqById(S \ {m})

DB == [vouchers |-> vouchers, entries |-> entries, acctEntries |-> acctEntries,
       certs |-> certs, nextId |-> nextId]

\* Variant: the where clause leaves the exact date out
SelectVoucherByMonth(db, parent_date, voucher_date, school_id) ==
    {v \in db.vouchers : v.parent = parent_date /\ v.schoolId = school_id}

\* select(DisbursementVoucher).where(parent ==, date ==, schoolId ==)
SelectVoucher(db, parent_date, voucher_date, school_id) ==
    {v \in db.vouchers : v.parent = parent_date /\ v.date = voucher_date
                         /\ v.schoolId = school_id}

\* DisbursementVoucher.entries / .accounting_entries: the child rows carrying the
\* header's (parent, date, schoolId); their date column is a datetime
RelDateTime(rows, v) ==
    {r \in rows : r.parent = v.parent /\ r.date.date = v.date /\ r.schoolId = v.schoolId}

\* DisbursementVoucher.certified_by: the date column is a date
RelDate(rows, v) ==
    {r \in rows : r.parent = v.parent /\ r.date = v.date /\ r.schoolId = v.schoolId}

EntryData(r) == [receipt |-> r.receipt, particulars |-> r.particulars, unit |-> r.unit,
                 quantity |-> r.quantity, unitPrice |-> r.unitPrice]

AccountingEntryData(r) == [uacs_code |-> r.uacs_code, accountTitle |-> r.accountTitle,
                           debit |-> r.debit, credit |-> r.credit]

MapSeq(Op(_), s) == [i \in 1..Len(s) |-> Op(s[i])]

CertUser(r) == r.user

\* DisbursementVoucherResponse built from a loaded voucher
BuildResponse(v, db) ==
    Merge([f \in HeaderFields |-> v[f]],
          [parent |-> v.parent, date |-> v.date, schoolId |-> v.schoolId,
           reportStatus |-> v.reportStatus,
           entries |-> MapSeq(EntryData, SeqById(RelDateTime(db.entries, v))),
           accountingEntries |->
               MapSeq(AccountingEntryData, SeqById(RelDateTime(db.acctEntries, v))),
           certifiedBy |-> MapSeq(CertUser, SeqById(RelDate(db.certs, v)))])

----------------------------------------------------------------------------
(* Requests and outcomes *)

NoRequest == [op |-> "none"]

UpsertRequest(caller, school_id, year, month, date, body) ==
    [op |-> "upsert", caller |-> caller, school_id |-> school_id, year |-> year,
     month |-> month, date |-> date, body |-> body]

GetRequest(caller, school_id, year, month, date) ==
    [op |-> "get", caller |-> caller, school_id |-> school_id, year |-> year,
     month |-> month, date |-> date]

ListRequest(caller, school_id, year, month, linked_category) ==
    [op |-> "list", caller |-> caller, school_id |-> school_id, year |-> year,
     month |-> month, linked_category |-> linked_category]

NoResponse == [outcome |-> "none", ops |-> <<>>]

\* What the client sees: a returned model is 200, HTTPException carries its own
\* status, the authorization failure is a 403, any other exception escaping the
\* handler (ValueError, a store error) is a 500
HttpStatus(outcome) ==
    CASE outcome = "OK" -> 200
      [] outcome = "HTTP_404_NOT_FOUND" -> 404
      [] outcome = "AuthorizationError" -> 403
      [] OTHER -> 500

----------------------------------------------------------------------------
(* create_or_update_disbursement_voucher, one database session per request *)

NoRow == [id |-> 0]

\* .first(): some row of the result, or nothing when the result is empty
First(rows) == IF rows = {} THEN {NoRow} ELSE rows

IdleSession ==
    [pc |-> "idle", req |-> NoRequest, parent_date |-> None, voucher_date |-> None,
     loaded |-> NoRow, voucher |-> NoRow, isNew |-> FALSE,
     delEntries |-> {}, delAcct |-> {}, delCerts |-> {},
     addEntries |-> <<>>, addAcct |-> <<>>, addCerts |-> <<>>,
     outcome |-> "none", body |-> None, ops |-> <<>>]

Raise(s, error, ops) ==
    [s EXCEPT !.pc = "failed", !.outcome = error, !.ops = s.ops \o ops]

\* Variant: the permission is evaluated and its result dropped
UpsertAuthUnchecked(s) ==
    [s EXCEPT !.pc = "dates", !.ops = s.ops \o <<"get_user", "verify_user_permission">>]

\* get_user, verify_user_permission(db, user, "reports:local:write")
UpsertAuth(s) ==
    IF verify_user_permission(s.req.caller, "reports:local:write")
    THEN [s EXCEPT !.pc = "dates", !.ops = s.ops \o <<"get_user", "verify_user_permission">>]
    ELSE Raise(s, "AuthorizationError", <<"get_user", "verify_user_permission">>)

\* parent_date = date(year, month, 1); voucher_date = date(year, month, date)
UpsertDates(s) ==
    IF ValidDate(s.req.year, s.req.month, 1)
       /\ ValidDate(s.req.year, s.req.month, s.req.date)
    THEN [s EXCEPT !.pc = "lookup",
                   !.parent_date = Date(s.req.year, s.req.month, 1),
                   !.voucher_date = Date(s.req.year, s.req.month, s.req.date)]
    ELSE Raise(s, "ValueError", <<>>)

\* Variant: the lookup result is not used and a header is always created
UpsertLookupMisses(s, db, pick) ==
    [s EXCEPT !.pc = "stage", !.loaded = NoRow, !.voucher = NoRow,
              !.ops = s.ops \o <<"select_voucher">>]

\* existing_voucher = db.exec(stmt).first()
UpsertLookup(s, db, pick) ==
    [s EXCEPT !.pc = IF pick.id # 0 THEN "clear_entries" ELSE "stage",
              !.loaded = pick, !.voucher = pick,
              !.ops = s.ops \o <<"select_voucher">>]

DeleteOps(ids) == [i \in 1..Cardinality(ids) |-> "delete"]

\* for entry in voucher.entries: db.delete(entry)
UpsertClearEntries(s, db) ==
    LET ids == {r.id : r \in RelDateTime(db.entries, s.voucher)}
    IN [s EXCEPT !.pc = "clear_acct", !.delEntries = ids,
                 !.ops = s.ops \o <<"load_entries">> \o DeleteOps(ids)]

\* Variant: the accounting entries of the existing voucher are not deleted
UpsertClearAccountingSkipped(s, db) ==
    [s EXCEPT !.pc = "clear_certs"]

\* for entry in voucher.accounting_entries: db.delete(entry)
UpsertClearAccounting(s, db) ==
    LET ids == {r.id : r \in RelDateTime(db.acctEntries, s.voucher)}
    IN [s EXCEPT !.pc = "clear_certs", !.delAcct = ids,
                 !.ops = s.ops \o <<"load_accounting_entries">> \o DeleteOps(ids)]

\* for cert in voucher.certified_by: db.delete(cert)
UpsertClearCertified(s, db) ==
    LET ids == {r.id : r \in RelDate(db.certs, s.voucher)}
    IN [s EXCEPT !.pc = "stage", !.delCerts = ids,
                 !.ops = s.ops \o <<"load_certified_by">> \o DeleteOps(ids)]

\* voucher = DisbursementVoucher(parent=, date=, schoolId=); db.add(voucher)
UpsertCreate(s) ==
    IF s.loaded.id # 0 THEN s
    ELSE [s EXCEPT !.isNew = TRUE,
                   !.voucher = Merge([f \in HeaderFields |-> None],
                                     [id |-> 0, parent |-> s.parent_date,
                                      date |-> s.voucher_date,
                                      schoolId |-> s.req.school_id,
                                      reportStatus |-> DefaultReportStatus]),
                   !.ops = s.ops \o <<"add">>]

\* Variant: only the fields the body supplies are assigned (a partial update)
UpsertFieldsPatch(s) ==
    [s EXCEPT !.voucher =
        [c \in DOMAIN s.voucher |->
            IF c \in HeaderFields /\ c \in DOMAIN s.req.body
            THEN s.req.body[c]
            ELSE IF c \in HeaderFields /\ s.loaded.id = 0 THEN FieldDefault(c)
            ELSE s.voucher[c]]]

\* Variant: reportStatus is assigned from the body when the body carries one
UpsertFieldsWithStatus(s) ==
    LET request == DisbursementVoucherCreateRequest(s.req.body)
    IN [s EXCEPT !.voucher =
            [c \in DOMAIN s.voucher |->
                IF c \in HeaderFields THEN request[c]
                ELSE IF c = "reportStatus" /\ c \in DOMAIN s.req.body THEN s.req.body[c]
                ELSE s.voucher[c]]]

\* voucher.<field> = request.<field>, for each mutable header field
UpsertFields(s) ==
    LET request == DisbursementVoucherCreateRequest(s.req.body)
    IN [s EXCEPT !.voucher =
            [c \in DOMAIN s.voucher |->
                IF c \in HeaderFields THEN request[c] ELSE s.voucher[c]]]

AddOps(items) == [i \in 1..Len(items) |-> "add"]

\* for entry_data in request.entries: db.add(DisbursementVoucherEntry(...))
UpsertAddEntries(s) ==
    LET request == DisbursementVoucherCreateRequest(s.req.body)
        Row(d) == [id |-> 0, parent |-> s.parent_date,
                   date |-> Combine(s.voucher_date, Midnight),
                   schoolId |-> s.req.school_id,
                   receipt |-> d.receipt, particulars |-> d.particulars,
                   unit |-> d.unit, quantity |-> d.quantity, unitPrice |-> d.unitPrice]
    IN [s EXCEPT !.addEntries = MapSeq(Row, request.entries),
                 !.ops = s.ops \o AddOps(request.entries)]

\* for acc_entry_data in request.accountingEntries: db.add(...)
UpsertAddAccounting(s) ==
    LET request == DisbursementVoucherCreateRequest(s.req.body)
        Row(d) == [id |-> 0, parent |-> s.parent_date,
                   date |-> Combine(s.voucher_date, Midnight),
                   schoolId |-> s.req.school_id,
                   uacs_code |-> d.uacs_code, accountTitle |-> d.accountTitle,
                   debit |-> d.debit, credit |-> d.credit]
    IN [s EXCEPT !.addAcct = MapSeq(Row, request.accountingEntries),
                 !.ops = s.ops \o AddOps(request.accountingEntries)]

\* for certified_user in request.certifiedBy: db.add(...)
UpsertAddCertified(s) ==
    LET request == DisbursementVoucherCreateRequest(s.req.body)
        Row(u) == [id |-> 0, parent |-> s.parent_date, date |-> s.voucher_date,
                   schoolId |-> s.req.school_id, user |-> u]
    IN [s EXCEPT !.addCerts = MapSeq(Row, request.certifiedBy),
                 !.ops = s.ops \o AddOps(request.certifiedBy)]

\* Lines 159-220 after the lookup and the deletes: all of it is pending in the session
UpsertStage(s) ==
    [UpsertAddCertified(UpsertAddAccounting(UpsertAddEntries(UpsertFields(UpsertCreate(s)))))
        EXCEPT !.pc = "commit"]

\* The UPDATE a flush emits for a loaded row: the columns whose value the session changed
UpdateChanged(row, loaded, new) ==
    [c \in DOMAIN row |->
        IF c \in HeaderFields /\ new[c] # loaded[c] THEN new[c] ELSE row[c]]

WithIds(rows, first) == {[rows[i] EXCEPT !.id = first + i - 1] : i \in 1..Len(rows)}

HeaderId(s, db) == IF s.isNew THEN db.nextId ELSE s.voucher.id

\* Variant: inserting a header replaces any stored header of the same key
CommitWritesReplacing(s, db) ==
    LET n0 == IF s.isNew THEN db.nextId + 1 ELSE db.nextId
        n1 == n0 + Len(s.addEntries)
        n2 == n1 + Len(s.addAcct)
    IN [vouchers |->
            IF s.isNew
            THEN {v \in db.vouchers : ~(v.parent = s.voucher.parent /\ v.date = s.voucher.date
                                        /\ v.schoolId = s.voucher.schoolId)}
                 \cup {[s.voucher EXCEPT !.id = db.nextId]}
            ELSE {IF v.id = s.voucher.id THEN UpdateChanged(v, s.loaded, s.voucher) ELSE v
                  : v \in db.vouchers},
        entries |-> {r \in db.entries : r.id \notin s.delEntries}
                    \cup WithIds(s.addEntries, n0),
        acctEntries |-> {r \in db.acctEntries : r.id \notin s.delAcct}
                        \cup WithIds(s.addAcct, n1),
        certs |-> {r \in db.certs : r.id \notin s.delCerts} \cup WithIds(s.addCerts, n2),
        nextId |-> n2 + Len(s.addCerts)]

\* db.commit(): every pending delete, insert and update of the session, at once
CommitWrites(s, db) ==
    LET n0 == IF s.isNew THEN db.nextId + 1 ELSE db.nextId
        n1 == n0 + Len(s.addEntries)
        n2 == n1 + Len(s.addAcct)
    IN [vouchers |->
            IF s.isNew THEN db.vouchers \cup {[s.voucher EXCEPT !.id = db.nextId]}
            ELSE {IF v.id = s.voucher.id THEN UpdateChanged(v, s.loaded, s.voucher) ELSE v
                  : v \in db.vouchers},
        entries |-> {r \in db.entries : r.id \notin s.delEntries}
                    \cup WithIds(s.addEntries, n0),
        acctEntries |-> {r \in db.acctEntries : r.id \notin s.delAcct}
                        \cup WithIds(s.addAcct, n1),
        certs |-> {r \in db.certs : r.id \notin s.delCerts} \cup WithIds(s.addCerts, n2),
        nextId |-> n2 + Len(s.addCerts)]

\* db.commit(); db.refresh(voucher); response = DisbursementVoucherResponse(...)
UpsertCommit(s, db) ==
    LET after == CommitWrites(s, db)
        row == CHOOSE v \in after.vouchers : v.id = HeaderId(s, db)
    IN [s EXCEPT !.pc = "done", !.outcome = "OK",
                 !.voucher = row,
                 !.body = BuildResponse(row, after),
                 !.ops = s.ops \o <<"commit", "refresh">>]

\* One step of the handler at s.pc (the commit is UpsertCommit / CommitWrites)
UpsertStep(s, db, pick) ==
    CASE s.pc = "auth" -> UpsertAuth(s)
      [] s.pc = "dates" -> UpsertDates(s)
      [] s.pc = "lookup" -> UpsertLookup(s, db, pick)
      [] s.pc = "clear_entries" -> UpsertClearEntries(s, db)
      [] s.pc = "clear_acct" -> UpsertClearAccounting(s, db)
      [] s.pc = "clear_certs" -> UpsertClearCertified(s, db)
      [] s.pc = "stage" -> UpsertStage(s)
      [] OTHER -> s

RECURSIVE UpsertRun(_, _, _)
\* The handler from its first line up to db.commit(), or to the exception it raises
UpsertRun(s, db, pick) ==
    IF s.pc \in {"commit", "failed", "done", "idle"} THEN s
    ELSE UpsertRun(UpsertStep(s, db, pick), db, pick)

\* The rows .first() may return for the request's key (nothing is selected when
\* the handler raises before the query)
Candidates(db, r) ==
    IF ValidDate(r.year, r.month, 1) /\ ValidDate(r.year, r.month, r.date)
    THEN First(SelectVoucher(db, Date(r.year, r.month, 1),
                             Date(r.year, r.month, r.date), r.school_id))
    ELSE {NoRow}

----------------------------------------------------------------------------
(* get_disbursement_voucher *)

GetResult(db, r, pick) ==
    LET auth == <<"get_user", "verify_user_permission">>
    IN IF ~verify_user_permission(r.caller, "reports:local:read")
       THEN [outcome |-> "AuthorizationError", body |-> None, ops |-> auth]
       ELSE IF ~(ValidDate(r.year, r.month, 1) /\ ValidDate(r.year, r.month, r.date))
       THEN [outcome |-> "ValueError", body |-> None, ops |-> auth]
       ELSE IF pick.id = 0
       THEN [outcome |-> "HTTP_404_NOT_FOUND", body |-> None,
             ops |-> auth \o <<"select_voucher">>]
       ELSE [outcome |-> "OK", body |-> BuildResponse(pick, db),
             ops |-> auth \o <<"select_voucher">>]

(* get_disbursement_vouchers_for_month *)

\* Python truthiness of Optional[str]: None and the empty string are false
Truthy(str) == str # None /\ str # ""

\* Variant: the where clause leaves the school out
ListQueryAnySchool(db, parent_date, school_id, linked_category) ==
    {v \in db.vouchers :
        /\ v.parent = parent_date
        /\ (Truthy(linked_category) => v.linkedLiquidationCategory = linked_category)}

ListQuery(db, parent_date, school_id, linked_category) ==
    {v \in db.vouchers :
        /\ v.parent = parent_date
        /\ v.schoolId = school_id
        /\ (Truthy(linked_category) => v.linkedLiquidationCategory = linked_category)}

ListResult(db, r) ==
    LET auth == <<"get_user", "verify_user_permission">>
        Response(v) == BuildResponse(v, db)
    IN IF ~verify_user_permission(r.caller, "reports:local:read")
       THEN [outcome |-> "AuthorizationError", body |-> None, ops |-> auth]
       ELSE IF ~ValidDate(r.year, r.month, 1)
       THEN [outcome |-> "ValueError", body |-> None, ops |-> auth]
       ELSE [outcome |-> "OK",
             body |-> MapSeq(Response,
                             SeqById(ListQuery(db, Date(r.year, r.month, 1),
                                               r.school_id, r.linked_category))),
             ops |-> auth \o <<"select_vouchers">>]

----------------------------------------------------------------------------
(* Requests handled one at a time *)

NoBody == [absent |-> TRUE]

\* Request slots of the server
Procs == {1, 2}

Init ==
    /\ vouchers = {} /\ entries = {} /\ acctEntries = {} /\ certs = {}
    /\ nextId = 1
    /\ req = NoRequest /\ resp = NoResponse
    /\ nReq = 0
    /\ sess = [p \in Procs |-> IdleSession]
    /\ committed = [k \in Paths |-> NoBody]

\* No request is in progress
Quiet == req = NoRequest /\ \A p \in DOMAIN sess : sess[p].pc = "idle"

SetStore(db) ==
    /\ vouchers' = db.vouchers
    /\ entries' = db.entries
    /\ acctEntries' = db.acctEntries
    /\ certs' = db.certs
    /\ nextId' = db.nextId

\* POST /{school_id}/{year}/{month}/{date}, run to completion
Upsert ==
    /\ Quiet
    /\ \E k \in Paths, caller \in Callers, body \in Payloads, commit_ok \in BOOLEAN :
      LET r == UpsertRequest(caller, k[1], k[2], k[3], k[4], body)
      IN \E pick \in Candidates(DB, r) :
           LET s == UpsertRun([IdleSession EXCEPT !.pc = "auth", !.req = r], DB, pick)
               done == UpsertCommit(s, DB)
           IN /\ req' = r
              /\ UNCHANGED sess
              /\ IF s.pc = "commit" /\ commit_ok
                 THEN /\ nReq < MaxUpserts
                      /\ nReq' = nReq + 1
                      /\ SetStore(CommitWrites(s, DB))
                      /\ resp' = [outcome |-> "OK", body |-> done.body, ops |-> done.ops]
                      /\ committed' = [committed EXCEPT ![k] = body]
                 ELSE /\ resp' = IF s.pc = "commit"
                                 THEN [outcome |-> "StoreError", body |-> None,
                                       ops |-> s.ops \o <<"commit">>]
                                 ELSE [outcome |-> s.outcome, body |-> None, ops |-> s.ops]
                      /\ UNCHANGED <<store, nReq, committed>>

\* GET /{school_id}/{year}/{month}/{date}
Get ==
    /\ Quiet
    /\ \E k \in Paths, caller \in Callers :
      LET r == GetRequest(caller, k[1], k[2], k[3], k[4])
      IN \E pick \in Candidates(DB, r) :
           /\ req' = r
           /\ resp' = GetResult(DB, r, pick)
           /\ UNCHANGED <<store, nReq, sess, committed>>

\* GET /{school_id}/{year}/{month}?linked_category=
List ==
    /\ Quiet
    /\ \E school_id \in SchoolIds, ym \in ListMonths, caller \in Callers,
          linked_category \in LinkedCategories :
      LET r == ListRequest(caller, school_id, ym[1], ym[2], linked_category)
      IN /\ req' = r
         /\ resp' = ListResult(DB, r)
         /\ UNCHANGED <<store, nReq, sess, committed>>

\* The report workflow outside this module moves a stored voucher's status
Workflow ==
    /\ Quiet
    /\ \E v \in vouchers, st \in ReportStatuses :
        /\ st # v.reportStatus
        /\ vouchers' = (vouchers \ {v}) \cup {[v EXCEPT !.reportStatus = st]}
        /\ UNCHANGED <<entries, acctEntries, certs, nextId, req, resp, nReq, sess, committed>>

\* The response (or the error) goes back to the client and the request ends
Return ==
    /\ req # NoRequest
    /\ req' = NoRequest
    /\ resp' = NoResponse
    /\ UNCHANGED <<store, nReq, sess, committed>>

Next == Upsert \/ Get \/ List \/ Workflow \/ Return

Spec == Init /\ [][Next]_vars

----------------------------------------------------------------------------
(* Upsert requests in flight together, each in its own session; a step is one
   store call of the handler (or the session-local code up to the next one) *)

RacePaths == {<<1, 2024, 3, 1>>, <<1, 2024, 3, 30>>, <<1, 2024, 2, 30>>}
RaceCallers == {"clerk", "auditor"}
RacePayloads == {PayloadFull, PayloadOther}

InFlight == {"auth", "dates", "lookup", "clear_entries", "clear_acct", "clear_certs",
             "stage", "commit"}

Running == {p \in Procs : sess[p].pc \in InFlight}

PathOf(r) == <<r.school_id, r.year, r.month, r.date>>

Start(p) ==
    /\ req = NoRequest
    /\ sess[p].pc = "idle"
    /\ nReq + Cardinality(Running) < MaxUpserts
    /\ \E k \in RacePaths, caller \in RaceCallers, body \in RacePayloads :
         sess' = [sess EXCEPT ![p] =
                    [IdleSession EXCEPT !.pc = "auth",
                        !.req = UpsertRequest(caller, k[1], k[2], k[3], k[4], body)]]
    /\ UNCHANGED <<store, req, resp, nReq, committed>>

Auth(p) ==
    /\ sess[p].pc = "auth"
    /\ sess' = [sess EXCEPT ![p] = UpsertAuth(sess[p])]
    /\ UNCHANGED <<store, req, resp, nReq, committed>>

Dates(p) ==
    /\ sess[p].pc = "dates"
    /\ sess' = [sess EXCEPT ![p] = UpsertDates(sess[p])]
    /\ UNCHANGED <<store, req, resp, nReq, committed>>

Lookup(p) ==
    /\ sess[p].pc = "lookup"
    /\ \E pick \in Candidates(DB, sess[p].req) :
         sess' = [sess EXCEPT ![p] = UpsertLookup(sess[p], DB, pick)]
    /\ UNCHANGED <<store, req, resp, nReq, committed>>

\* Variant: each delete is committed as it is issued
ClearEntriesAutocommit(p) ==
    /\ sess[p].pc = "clear_entries"
    /\ sess' = [sess EXCEPT ![p] = UpsertClearEntries(sess[p], DB)]
    /\ entries' = entries \ RelDateTime(entries, sess[p].voucher)
    /\ UNCHANGED <<vouchers, acctEntries, certs, nextId, req, resp, nReq, committed>>

ClearEntries(p) ==
    /\ sess[p].pc = "clear_entries"
    /\ sess' = [sess EXCEPT ![p] = UpsertClearEntries(sess[p], DB)]
    /\ UNCHANGED <<store, req, resp, nReq, committed>>

ClearAccounting(p) ==
    /\ sess[p].pc = "clear_acct"
    /\ sess' = [sess EXCEPT ![p] = UpsertClearAccounting(sess[p], DB)]
    /\ UNCHANGED <<store, req, resp, nReq, committed>>

ClearCertified(p) ==
    /\ sess[p].pc = "clear_certs"
    /\ sess' = [sess EXCEPT ![p] = UpsertClearCertified(sess[p], DB)]
    /\ UNCHANGED <<store, req, resp, nReq, committed>>

Stage(p) ==
    /\ sess[p].pc = "stage"
    /\ sess' = [sess EXCEPT ![p] = UpsertStage(sess[p])]
    /\ UNCHANGED <<store, req, resp, nReq, committed>>

Commit(p) ==
    /\ sess[p].pc = "commit"
    /\ SetStore(CommitWrites(sess[p], DB))
    /\ sess' = [sess EXCEPT ![p] = UpsertCommit(sess[p], DB)]
    /\ nReq' = nReq + 1
    /\ committed' = [committed EXCEPT ![PathOf(sess[p].req)] = sess[p].req.body]
    /\ UNCHANGED <<req, resp>>

\* A store call fails: the exception leaves the handler and the session is
\* closed with its pending writes discarded
Abort(p) ==
    /\ sess[p].pc \in InFlight
    /\ sess' = [sess EXCEPT ![p] = Raise(sess[p], "StoreError", <<>>)]
    /\ UNCHANGED <<store, req, resp, nReq, committed>>

\* The response or the error has gone back; the slot is free again
Close(p) ==
    /\ sess[p].pc \in {"done", "failed"}
    /\ sess' = [sess EXCEPT ![p] = IdleSession]
    /\ UNCHANGED <<store, req, resp, nReq, committed>>

NextRace ==
    \E p \in Procs :
        \/ Start(p) \/ Auth(p) \/ Dates(p) \/ Lookup(p)
        \/ ClearEntries(p) \/ ClearAccounting(p) \/ ClearCertified(p)
        \/ Stage(p) \/ Commit(p) \/ Abort(p) \/ Close(p)

SpecRace == Init /\ [][NextRace]_vars

----------------------------------------------------------------------------
(* Properties *)

Parsed(body) == DisbursementVoucherCreateRequest(body)

ReqPath == <<req.school_id, req.year, req.month, req.date>>

PathDate(k) == Date(k[2], k[3], k[4])
PathParent(k) == Date(k[2], k[3], 1)

\* Stored child rows carrying the key of path k, in store order
EntriesAt(k) ==
    SeqById({r \in entries : r.schoolId = k[1] /\ r.parent = PathParent(k)
                             /\ r.date = Combine(PathDate(k), Midnight)})
AccountingAt(k) ==
    SeqById({r \in acctEntries : r.schoolId = k[1] /\ r.parent = PathParent(k)
                                 /\ r.date = Combine(PathDate(k), Midnight)})
CertifiedAt(k) ==
    SeqById({r \in certs : r.schoolId = k[1] /\ r.parent = PathParent(k)
                           /\ r.date = PathDate(k)})

GetAnswered == req.op = "get" /\ resp.outcome = "OK"

\* C1 as stated: a get after a committed upsert on the same path returns the
\* submitted body's schoolId, date and every mutable header field.
C1_GetEchoesWholePayload ==
    GetAnswered /\ committed[ReqPath] # NoBody =>
        LET sent == Parsed(committed[ReqPath])
        IN /\ resp.body.schoolId = sent.schoolId
           /\ resp.body.date = sent.date
           /\ \A f \in HeaderFields : resp.body[f] = sent[f]

\* C1 amended: a get after a committed upsert on the same path returns every
\* mutable header field as the last committed body gave it (null / false when the
\* body omitted it, whatever was stored before), and schoolId and date as the
\* path gives them.
C1_GetReturnsCommittedHeader ==
    GetAnswered =>
        /\ committed[ReqPath] # NoBody
        /\ \A f \in HeaderFields : resp.body[f] = Parsed(committed[ReqPath])[f]
        /\ resp.body.schoolId = req.school_id
        /\ resp.body.date = PathDate(ReqPath)

\* A get answers for a voucher that PayloadFull created (8 rows) and
\* PayloadMinimal then overwrote: the optional fields are back to null.
C1_Witness ==
    /\ GetAnswered
    /\ committed[ReqPath] = PayloadMinimal
    /\ Cardinality(vouchers) = 1 /\ nextId = 9
    /\ resp.body.approvedBy = None
    /\ resp.body.certifiedCashAvailable = FALSE

\* C2: for every path with a committed upsert, the stored entries, accounting
\* entries and certifier rows of that key are exactly the items of the last
\* committed body, one row per item.
C2_ChildrenReplaced ==
    \A k \in Paths : committed[k] # NoBody =>
        LET sent == Parsed(committed[k])
        IN /\ MapSeq(EntryData, EntriesAt(k)) = sent.entries
           /\ MapSeq(AccountingEntryData, AccountingAt(k)) = sent.accountingEntries
           /\ MapSeq(CertUser, CertifiedAt(k)) = sent.certifiedBy

\* PayloadFull then PayloadOther committed on one key (8 + 4 rows written).
C2_Witness ==
    /\ req.op = "upsert" /\ resp.outcome = "OK"
    /\ req.body = PayloadOther
    /\ Cardinality(vouchers) = 1 /\ nextId = 13
    /\ Len(EntriesAt(ReqPath)) = 1

\* C3: at most one header per (schoolId, parent, date), and every header's parent
\* is the first day of its date's month.
C3_UniqueHeader ==
    /\ \A v, w \in vouchers :
          v.schoolId = w.schoolId /\ v.parent = w.parent /\ v.date = w.date => v = w
    /\ \A v \in vouchers : v.parent = Date(v.date.year, v.date.month, 1)

\* Two upserts committed on one key, on a day other than the first of the month.
C3_Witness ==
    /\ nReq = 2 /\ Cardinality(vouchers) = 1
    /\ \E v \in vouchers : v.date.day # 1

ReadAllowed == verify_user_permission(req.caller, "reports:local:read")
WriteAllowed == verify_user_permission(req.caller, "reports:local:write")
ReqDateValid == ValidDate(req.year, req.month, 1) /\ ValidDate(req.year, req.month, req.date)

\* C5: an authorized get on a real date is a 404 exactly when no upsert has
\* committed for its key; after a committed upsert it succeeds.
C5_GetNotFound ==
    req.op = "get" /\ ReadAllowed /\ ReqDateValid =>
        IF committed[ReqPath] = NoBody
        THEN resp.outcome = "HTTP_404_NOT_FOUND" /\ HttpStatus(resp.outcome) = 404
        ELSE resp.outcome = "OK"

\* A 404 for one key while vouchers of other keys are stored.
C5_Witness ==
    /\ req.op = "get" /\ resp.outcome = "HTTP_404_NOT_FOUND"
    /\ \E v \in vouchers : v.schoolId = req.school_id /\ v.parent = PathParent(ReqPath)


ListAnswered == req.op = "list" /\ resp.outcome = "OK"

ListedKeys ==
    {<<resp.body[i].schoolId, resp.body[i].parent, resp.body[i].date,
       resp.body[i].linkedLiquidationCategory>> : i \in 1..Len(resp.body)}

KeysOf(rows) == {<<v.schoolId, v.parent, v.date, v.linkedLiquidationCategory>> : v \in rows}

InMonth(v) == v.parent = Date(req.year, req.month, 1) /\ v.schoolId = req.school_id

\* C6 as stated: the listing is one response per stored voucher of the month and
\* school, narrowed to linkedLiquidationCategory = linked_category whenever a
\* linked_category string is supplied, the empty string included.
C6_ListNarrowsOnAnyString ==
    ListAnswered =>
        LET expected == {v \in vouchers :
                            /\ InMonth(v)
                            /\ (req.linked_category # None =>
                                  v.linkedLiquidationCategory = req.linked_category)}
        IN Len(resp.body) = Cardinality(expected) /\ ListedKeys = KeysOf(expected)

\* C6 amended: the listing is one response per stored voucher of the month and
\* school; a non-empty linked_category narrows it to the vouchers whose
\* linkedLiquidationCategory equals it exactly; an absent or empty
\* linked_category does not narrow it.
C6_ListNarrowsOnNonEmpty ==
    ListAnswered =>
        LET expected == {v \in vouchers :
                            /\ InMonth(v)
                            /\ (req.linked_category \notin {None, ""} =>
                                  v.linkedLiquidationCategory = req.linked_category)}
        IN Len(resp.body) = Cardinality(expected) /\ ListedKeys = KeysOf(expected)

\* A listing narrowed by "A" leaves out a stored voucher of the same month and
\* school whose category is not "A".
C6_Witness ==
    /\ ListAnswered /\ req.linked_category = "A"
    /\ Len(resp.body) = 1
    /\ \E v \in vouchers : InMonth(v) /\ v.linkedLiquidationCategory # "A"

VoucherCalls == {"select_voucher", "select_vouchers", "load_entries",
                 "load_accounting_entries", "load_certified_by",
                 "delete", "add", "commit", "refresh"}

Calls(ops) == {ops[i] : i \in 1..Len(ops)}

\* C7 as stated: an upsert or get whose (year, month, day) is no calendar date is
\* answered with a 422 raised before any access to the store.
C7_InvalidDateIs422 ==
    req.op \in {"upsert", "get"} /\ ~ReqDateValid
    /\ (IF req.op = "get" THEN ReadAllowed ELSE WriteAllowed) =>
        /\ HttpStatus(resp.outcome) = 422
        /\ Calls(resp.ops) \cap VoucherCalls = {}

Handled == req = NoRequest /\ req' # NoRequest

\* C8: a request by a caller lacking the permission it needs ends in the
\* authorization error with no voucher query, delete, insert or commit made, no
\* voucher data returned and the store as it was.
C8_Unauthorized ==
    [][Handled /\ ~verify_user_permission(req'.caller,
                     IF req'.op = "upsert" THEN "reports:local:write"
                     ELSE "reports:local:read") =>
          /\ resp'.outcome = "AuthorizationError"
          /\ HttpStatus(resp'.outcome) = 403
          /\ Calls(resp'.ops) \cap VoucherCalls = {}
          /\ resp'.body = None
          /\ store' = store]_vars

\* An upsert by the read-only caller is refused while vouchers are stored.
C8_Witness ==
    /\ req.op = "upsert" /\ req.caller = "auditor"
    /\ resp.outcome = "AuthorizationError"
    /\ vouchers # {}

\* C9: handling a request never changes the reportStatus of a stored voucher, a
\* voucher it creates has the store's default status, and get and list change
\* nothing in the store.
C9_StatusUntouched ==
    [][Handled =>
          /\ \A v \in vouchers :
                \E w \in vouchers' : w.id = v.id /\ w.reportStatus = v.reportStatus
          /\ \A w \in vouchers' :
                (\A v \in vouchers : v.id # w.id) => w.reportStatus = DefaultReportStatus
          /\ (req'.op \in {"get", "list"} => store' = store)]_vars

\* An upsert whose body carries a reportStatus is answered with another status.
C9_Witness ==
    /\ req.op = "upsert" /\ resp.outcome = "OK"
    /\ "reportStatus" \in DOMAIN req.body
    /\ resp.body.reportStatus # req.body.reportStatus


----------------------------------------------------------------------------
(* Properties of requests in flight together *)

Committing(p) == sess[p].pc = "commit" /\ sess'[p].pc = "done"

\* Table `after` is table `before` without the rows the session deleted and with
\* one new row per staged item, in order
TableReplaced(before, after, deleted, staged, Data(_)) ==
    /\ \A r \in before : r.id \notin deleted => r \in after
    /\ \A r \in after : r.id \notin deleted
    /\ MapSeq(Data, SeqById(after \ before)) = MapSeq(Data, staged)

\* The whole write set of session s is in `a` and nothing else separates it from `b`
WritesApplied(s, b, a) ==
    LET sent == Parsed(s.req.body)
    IN /\ TableReplaced(b.entries, a.entries, s.delEntries, s.addEntries, EntryData)
       /\ TableReplaced(b.acctEntries, a.acctEntries, s.delAcct, s.addAcct,
                        AccountingEntryData)
       /\ TableReplaced(b.certs, a.certs, s.delCerts, s.addCerts, CertUser)
       /\ Len(s.addEntries) = Len(sent.entries)
       /\ Len(s.addAcct) = Len(sent.accountingEntries)
       /\ Len(s.addCerts) = Len(sent.certifiedBy)
       /\ IF s.isNew
          THEN /\ b.vouchers \subseteq a.vouchers
               /\ \E v \in a.vouchers \ b.vouchers :
                     /\ a.vouchers = b.vouchers \cup {v}
                     /\ v.schoolId = s.req.school_id
                     /\ v.parent = s.parent_date /\ v.date = s.voucher_date
                     /\ \A f \in HeaderFields : v[f] = sent[f]
          ELSE /\ {v.id : v \in a.vouchers} = {v.id : v \in b.vouchers}
               /\ \A v \in b.vouchers : v.id # s.loaded.id => v \in a.vouchers
               /\ \E v \in a.vouchers :
                     /\ v.id = s.loaded.id
                     /\ \A f \in HeaderFields : sent[f] # s.loaded[f] => v[f] = sent[f]

\* C4: the committed store changes only in the step in which one session
\* commits, and that step applies the session's whole write set (its deletes, its
\* header insert or update, one row per submitted item); a session that fails at
\* any step, the commit included, leaves the committed store as it was.
C4_AtomicCommit ==
    [][/\ (DB' # DB => \E p \in Procs : Committing(p))
       /\ \A p \in Procs : Committing(p) => WritesApplied(sess[p], DB, DB')
       /\ \A p \in Procs :
             sess[p].pc \in InFlight /\ sess'[p].pc = "failed" => DB' = DB]_vars

\* A session failed after staging deletes and inserts; the rows it meant to
\* delete are all still stored.
C4_Witness ==
    \E p \in Procs :
        /\ sess[p].pc = "failed" /\ sess[p].outcome = "StoreError"
        /\ sess[p].delEntries # {} /\ Len(sess[p].addAcct) > 0
        /\ \A i \in sess[p].delEntries : \E r \in entries : r.id = i

\* C10: when two upserts of one key have both found no voucher and both
\* committed, two headers are stored for that (schoolId, parent, date), with the
\* child rows of both requests: nothing in the handler makes the second one wait,
\* fail or retry.
C10_BothInsert ==
    \A p, q \in Procs :
        /\ p # q
        /\ sess[p].pc = "done" /\ sess[q].pc = "done"
        /\ sess[p].isNew /\ sess[q].isNew
        /\ PathOf(sess[p].req) = PathOf(sess[q].req)
        => LET k == PathOf(sess[p].req)
           IN /\ Cardinality({v \in vouchers : v.schoolId = k[1] /\ v.parent = PathParent(k)
                                                /\ v.date = PathDate(k)}) = 2
              /\ Len(EntriesAt(k)) = Len(Parsed(sess[p].req.body).entries)
                                       + Len(Parsed(sess[q].req.body).entries)
              /\ Len(AccountingAt(k)) = Len(Parsed(sess[p].req.body).accountingEntries)
                                          + Len(Parsed(sess[q].req.body).accountingEntries)
              /\ Len(CertifiedAt(k)) = Len(Parsed(sess[p].req.body).certifiedBy)
                                         + Len(Parsed(sess[q].req.body).certifiedBy)

\* Both sessions created a header for the same key and both committed.
C10_Witness ==
    /\ sess[1].pc = "done" /\ sess[2].pc = "done"
    /\ sess[1].isNew /\ sess[2].isNew
    /\ PathOf(sess[1].req) = PathOf(sess[2].req)
    /\ \E v, w \in vouchers :
          v.id # w.id /\ v.schoolId = w.schoolId /\ v.parent = w.parent /\ v.date = w.date

====
